---- MODULE Spec2Model ----
(***************************************************************************)
(* Model of the sst Lambda extension: the telemetry listener               *)
(* (server/listener.go), the Extensions API client (EventNext) and the     *)
(* main loop that buffers one invocation's log lines and flushes them to   *)
(* CloudWatch Logs.                                                        *)
(*                                                                         *)
(* A Go string is modelled as a sequence of tokens (each token a piece of  *)
(* text), so that formatting, the directive regexp and the JSON decoding   *)
(* are computed and not assumed.                                           *)
(***************************************************************************)
EXTENDS Integers, Sequences, FiniteSets, TLC

(***************************************************************************)
(* Bounds of the model.                                                    *)
(***************************************************************************)
\* envelopes the telemetry source posts during one run
MaxPosted == 3
\* successful or failed EventNext calls during one run
MaxPolls == 2
\* capacity of the Events channel (make(chan Event, 1000)), scaled down
QueueCap == 2
\* the call counters of one flush saturate here
MaxCount == 3
\* calls of Shutdown() made from outside the listener (SpecApi only)
MaxExtCalls == 2

(***************************************************************************)
(* Text.                                                                   *)
(***************************************************************************)
Marker == "::sst::"
NL == "\n"

J1 == "{\"action\":\"log.split\",\"properties\":{\"logGroupName\":\"/g1\"}}"
J2 == "{\"action\":\"log.split\",\"properties\":{\"logGroupName\":\"/g2\"}}"
JOther == "{\"action\":\"log.flush\",\"properties\":{\"logGroupName\":\"/g2\"}}"
JNoProps == "{\"action\":\"log.split\"}"
JEmptyProps == "{\"action\":\"log.split\",\"properties\":{}}"
JBad == "{\"action\":\"log.split\","

P1 == "{\"logGroupName\":\"/g1\"}"
P2 == "{\"logGroupName\":\"/g2\"}"
PEmpty == "{}"

\* json.Unmarshal([]byte(matches[1]), &action): the capture is one JSON value
\* or the decoding fails; an absent "properties" leaves Properties nil (<<>>).
UnmarshalAction(capture) ==
  IF Len(capture) # 1 THEN [err |-> TRUE, Action |-> "", Properties |-> <<>>]
  ELSE CASE capture[1] = J1 -> [err |-> FALSE, Action |-> "log.split", Properties |-> <<P1>>]
         [] capture[1] = J2 -> [err |-> FALSE, Action |-> "log.split", Properties |-> <<P2>>]
         [] capture[1] = JOther -> [err |-> FALSE, Action |-> "log.flush", Properties |-> <<P2>>]
         [] capture[1] = JNoProps -> [err |-> FALSE, Action |-> "log.split", Properties |-> <<>>]
         [] capture[1] = JEmptyProps -> [err |-> FALSE, Action |-> "log.split", Properties |-> <<PEmpty>>]
         [] OTHER -> [err |-> TRUE, Action |-> "", Properties |-> <<>>]

\* json.Unmarshal(action.Properties, &logSplitAction): empty input is an
\* error; an object without logGroupName decodes to the zero value "".
UnmarshalLogSplit(props) ==
  IF Len(props) # 1 THEN [err |-> TRUE, LogGroupName |-> ""]
  ELSE CASE props[1] = P1 -> [err |-> FALSE, LogGroupName |-> "/g1"]
         [] props[1] = P2 -> [err |-> FALSE, LogGroupName |-> "/g2"]
         [] props[1] = PEmpty -> [err |-> FALSE, LogGroupName |-> ""]
         [] OTHER -> [err |-> TRUE, LogGroupName |-> ""]

\* index of the first marker that is followed by a character other than a
\* line break, 0 when there is none: where "::sst::(.+)" matches first
MarkerAt(text) ==
  LET hits == {i \in 1..(Len(text) - 1) : text[i] = Marker /\ text[i + 1] # NL}
  IN IF hits = {} THEN 0 ELSE CHOOSE i \in hits : \A j \in hits : i <= j

\* the greedy group (.+): from the marker to the end of the line
CaptureFrom(text, i) ==
  LET stops == {j \in (i + 1)..Len(text) : text[j] = NL}
      last == IF stops = {} THEN Len(text)
              ELSE (CHOOSE j \in stops : \A k \in stops : j <= k) - 1
  IN SubSeq(text, i + 1, last)

\* pattern.FindStringSubmatch(string(v)): <<>> when there is no match, else
\* <<whole match, group 1>>
FindStringSubmatch(text) ==
  LET i == MarkerAt(text)
  IN IF i = 0 THEN <<>>
     ELSE <<<<Marker>> \o CaptureFrom(text, i), CaptureFrom(text, i)>>

(***************************************************************************)
(* Log lines the main loop formats.                                        *)
(***************************************************************************)
MemorySize == "128"

FormatInitStart(v) ==
  <<"INIT_START Runtime Version: ", v.RuntimeVersion,
    " Runtime Version ARN: ", v.RuntimeVersionArn>>

FormatStart(v) ==
  <<"START RequestId: ", v.RequestID, " Version: ", v.Version>>

FormatEnd(v) == <<"END RequestId: ", v.RequestID>>

FormatReport(v) ==
  <<"REPORT RequestId: ", v.RequestID, "\tDuration: ", v.DurationMs,
    " ms\tBilled Duration: ", v.DurationMs, " ms\tMemory Size: ", MemorySize,
    " MB\tMax Memory Used: ", "0", " MB">>

\* FunctionEventStep with the first directive winning: logGroupName is set
\* only while it is empty
FunctionEventStep_FirstWins(text, group, buf) ==
  LET matches == FindStringSubmatch(text)
  IN IF Len(matches) > 1
     THEN LET action == UnmarshalAction(matches[2])
              logSplitAction == UnmarshalLogSplit(action.Properties)
          IN IF action.err \/ action.Action # "log.split" \/ logSplitAction.err
                \/ group # ""
             THEN [group |-> group, buf |-> buf]
             ELSE [group |-> logSplitAction.LogGroupName, buf |-> buf]
     ELSE [group |-> group, buf |-> Append(buf, text)]

\* the effect of one FunctionEvent on (logGroupName, buffer)
FunctionEventStep(text, group, buf) ==
  LET matches == FindStringSubmatch(text)
  IN IF Len(matches) > 1
     THEN LET action == UnmarshalAction(matches[2])
              logSplitAction == UnmarshalLogSplit(action.Properties)
          IN IF action.err THEN [group |-> group, buf |-> buf]
             ELSE IF action.Action # "log.split" THEN [group |-> group, buf |-> buf]
             ELSE IF logSplitAction.err THEN [group |-> group, buf |-> buf]
             ELSE [group |-> logSplitAction.LogGroupName, buf |-> buf]
     ELSE [group |-> group, buf |-> Append(buf, text)]

(***************************************************************************)
(* Telemetry envelopes (UnknownEvent) and typed events (Event).            *)
(***************************************************************************)
\* a field of a JSON object, the zero value when the object lacks it
Field(raw, name) == IF name \in DOMAIN raw THEN raw[name] ELSE ""

\* json.Unmarshal(evt.Record, &specific) with the error dropped: a record that
\* is no JSON object leaves the struct at its zero value
UnmarshalInitStart(raw) ==
  LET o == IF raw.json = "object" THEN raw ELSE [json |-> "object"]
  IN [T |-> "PlatformInitStartEvent",
      InitializationType |-> Field(o, "initializationType"),
      Phase |-> Field(o, "phase"),
      RuntimeVersion |-> Field(o, "runtimeVersion"),
      RuntimeVersionArn |-> Field(o, "runtimeVersionArn")]

UnmarshalStart(raw) ==
  LET o == IF raw.json = "object" THEN raw ELSE [json |-> "object"]
  IN [T |-> "PlatformStartEvent",
      RequestID |-> Field(o, "requestId"),
      Version |-> Field(o, "version")]

\* a float64 prints as "0" when the metric was not decoded
UnmarshalRuntimeDone(raw) ==
  LET o == IF raw.json = "object" THEN raw ELSE [json |-> "object"]
  IN [T |-> "PlatformRuntimeDone",
      RequestID |-> Field(o, "requestId"),
      DurationMs |-> IF "durationMs" \in DOMAIN o THEN o.durationMs ELSE "0"]

UnmarshalReport(raw) ==
  LET o == IF raw.json = "object" THEN raw ELSE [json |-> "object"]
  IN [T |-> "PlatformReportEvent",
      RequestID |-> Field(o, "requestId"),
      DurationMs |-> IF "durationMs" \in DOMAIN o THEN o.durationMs ELSE "0"]

\* var specific string: only a JSON string decodes, anything else leaves ""
UnmarshalFunction(raw) ==
  [T |-> "FunctionEvent",
   Text |-> IF raw.json = "string" THEN raw.text ELSE <<>>]

\* the Event one envelope of a recognized type is turned into
EventOf(evt) ==
  [Time |-> evt.Time, Type |-> evt.Type,
   Record |-> CASE evt.Type = "platform.initStart" -> UnmarshalInitStart(evt.Record)
                [] evt.Type = "function" -> UnmarshalFunction(evt.Record)
                [] evt.Type = "platform.start" -> UnmarshalStart(evt.Record)
                [] evt.Type = "platform.report" -> UnmarshalReport(evt.Record)
                [] evt.Type = "platform.runtimeDone" -> UnmarshalRuntimeDone(evt.Record)]

\* what the telemetry source sends
Envelope(type, raw) == [Time |-> "t", Type |-> type, Record |-> raw]

\* the function log lines of the runs checked: plain text, two directives (one
\* after other text), a marker with a cut-off payload, and a log.split
\* without logGroupName
FunctionTexts ==
  {<<"hello">>, <<Marker, J1>>, <<"pre ", Marker, J2>>, <<Marker, JBad>>,
   <<Marker, JEmptyProps>>}

Envelopes ==
  {Envelope("platform.initStart",
            [json |-> "object", initializationType |-> "on-demand",
             phase |-> "init", runtimeVersion |-> "nodejs:18.v5",
             runtimeVersionArn |-> "arn:rt"]),
   Envelope("platform.start",
            [json |-> "object", requestId |-> "r1", version |-> "$LATEST"]),
   Envelope("platform.start", [json |-> "number"]),
   Envelope("platform.report",
            [json |-> "object", requestId |-> "r1", durationMs |-> "12.3"]),
   Envelope("platform.runtimeDone",
            [json |-> "object", requestId |-> "r1", durationMs |-> "12.3"]),
   Envelope("platform.extension", [json |-> "object"]),
   Envelope("platform.fault", [json |-> "object"])}
  \cup {Envelope("function", [json |-> "string", text |-> t]) : t \in FunctionTexts}

(***************************************************************************)
(* State.                                                                  *)
(***************************************************************************)
VARIABLES
  pc,            \* where main is: loop, poll, range, put, createGroup,
                 \* createStream, or returned (exit...)
  cancelled,     \* ctx of main is done
  logGroupName,  \* main's logGroupName
  buffer,        \* main's buffer
  put,           \* the PutLogEventsInput of the current flush
  Events,        \* server.Events: the events in the channel, oldest first
  closed,        \* server.Events is closed
  httpServer,    \* server.httpServer: "set" or "nil"
  lsn,           \* the listener goroutine: serving, failed, closed
  handlers,      \* the http handler goroutines
  sd,            \* the calls of server.Shutdown in progress, by caller
  crashed,       \* an unrecovered panic ended the process
  groups,        \* log groups that exist in the log store
  streams,       \* log groups in which the stream streamName exists
  polls,         \* EventNext calls issued
  posted,        \* envelopes posted so far
  extCalls,      \* Shutdown calls made from outside the listener
  pollFailed,    \* history: some EventNext call returned an error
  cycle,         \* history: the events dequeued since the last EventNext
  flushes,       \* history: flushes started since the last EventNext
  calls,         \* history: the log store calls of the current flush
  failedBefore,  \* history: an earlier flush ended with an error
  slice,         \* history: the envelopes each running request has handled
  pushed,        \* history: the events each running request has pushed
  closes         \* history: close(Events) executed

vars ==
  <<pc, cancelled, logGroupName, buffer, put, Events, closed, httpServer, lsn,
    handlers, sd, crashed, groups, streams, polls, posted, extCalls,
    pollFailed, cycle, flushes, calls, failedBefore, slice, pushed, closes>>

mainVars == <<pc, logGroupName, buffer, put>>
storeVars == <<groups, streams>>
listenerVars == <<httpServer, lsn, sd, closes, extCalls>>
handlerVars == <<handlers, slice, pushed, posted>>
cycleVars == <<cycle, flushes, calls, failedBefore>>

streamName == "2026/11/03/8c5b"

Slots == {1, 2}
Callers == {"listener", "external"}
Exits == {"exitCancelled", "exitPollError", "exitShutdown"}

NoPut == [LogGroupName |-> "", LogStreamName |-> "", LogEvents |-> <<>>]
NoCalls ==
  [put |-> 0, createGroup |-> 0, createStream |-> 0, first |-> "", last |-> "",
   fault |-> FALSE]
IdleHandler == [st |-> "idle", left |-> 0]
IdleCall == [pc |-> "idle", err |-> FALSE]

\* the call counters of a flush count up to MaxCount, and stop once a call of
\* the flush has failed for a reason of its own
Bump(n) == IF n < MaxCount /\ ~calls.fault THEN n + 1 ELSE n

\* the process runs until main returns or a goroutine panics
Alive == pc \notin Exits /\ ~crashed

\* a handler that has left its loop returns before anything else happens: the
\* return takes no time and nothing waits for it
Ready ==
  Alive /\ \A r \in Slots : ~(handlers[r].st = "running" /\ handlers[r].left = 0)

\* the state when main reaches its for loop: registered, listener started
\* (Events made, httpServer set), subscribed, buffer and logGroupName empty
Init ==
  /\ pc = "loop"
  /\ cancelled = FALSE
  /\ logGroupName = ""
  /\ buffer = <<>>
  /\ put = NoPut
  /\ Events = <<>>
  /\ closed = FALSE
  /\ httpServer = "set"
  /\ lsn = "serving"
  /\ handlers = [r \in Slots |-> IdleHandler]
  /\ sd = [c \in Callers |-> IdleCall]
  /\ crashed = FALSE
  /\ groups = {"/g1"}
  /\ streams = {}
  /\ polls = 0
  /\ posted = 0
  /\ extCalls = 0
  /\ pollFailed = FALSE
  /\ cycle = <<>>
  /\ flushes = 0
  /\ calls = NoCalls
  /\ failedBefore = FALSE
  /\ slice = [r \in Slots |-> <<>>]
  /\ pushed = [r \in Slots |-> <<>>]
  /\ closes = 0

(***************************************************************************)
(* main: the signal handler and the poll loop.                             *)
(***************************************************************************)
\* SIGTERM or SIGINT: cancel()
Signal ==
  /\ Ready
  /\ ~cancelled
  /\ cancelled' = TRUE
  /\ UNCHANGED <<mainVars, Events, closed, listenerVars, handlerVars, crashed,
                 storeVars, polls, pollFailed, cycleVars>>

\* the select at the top of the loop: return when ctx is done, else call
\* EventNext
LoopTop ==
  /\ Ready
  /\ pc = "loop"
  /\ IF cancelled
     THEN pc' = "exitCancelled" /\ polls' = polls
     ELSE polls < MaxPolls /\ pc' = "poll" /\ polls' = polls + 1
  /\ UNCHANGED <<cancelled, logGroupName, buffer, put, Events, closed,
                 listenerVars, handlerVars, crashed, storeVars, pollFailed,
                 cycleVars>>

\* AfterEventNext without the reset of logGroupName and buffer
AfterEventNext_NoReset(eventType) ==
  /\ UNCHANGED <<logGroupName, buffer>>
  /\ pc' = CASE eventType = "INVOKE" -> "range"
             [] eventType = "SHUTDOWN" -> "exitShutdown"
             [] OTHER -> "loop"

\* AfterEventNext with only the buffer reset
AfterEventNext_KeepsGroup(eventType) ==
  /\ UNCHANGED logGroupName
  /\ buffer' = <<>>
  /\ pc' = CASE eventType = "INVOKE" -> "range"
             [] eventType = "SHUTDOWN" -> "exitShutdown"
             [] OTHER -> "loop"

\* what main does with a response of EventNext: reset, then branch on the type
AfterEventNext(eventType) ==
  /\ logGroupName' = ""
  /\ buffer' = <<>>
  /\ pc' = CASE eventType = "INVOKE" -> "range"
             [] eventType = "SHUTDOWN" -> "exitShutdown"
             [] OTHER -> "loop"

\* EventNext returns an event
EventNextReturns ==
  /\ Ready
  /\ pc = "poll"
  /\ ~cancelled
  /\ \E eventType \in {"INVOKE", "SHUTDOWN"} : AfterEventNext(eventType)
  /\ cycle' = <<>>
  /\ flushes' = 0
  /\ calls' = NoCalls
  /\ UNCHANGED <<cancelled, put, Events, closed, listenerVars, handlerVars,
                 crashed, storeVars, polls, pollFailed, failedBefore>>

\* AfterEventNextError with the loop going on after the error is logged
AfterEventNextError_Continue == pc' = "loop"

\* what main does with an error of EventNext
AfterEventNextError == pc' = "exitPollError"

\* EventNext returns an error: the transport or the status failed, or ctx was
\* cancelled while the call was in flight
EventNextFails ==
  /\ Ready
  /\ pc = "poll"
  /\ AfterEventNextError
  /\ pollFailed' = TRUE
  /\ UNCHANGED <<cancelled, logGroupName, buffer, put, Events, closed,
                 listenerVars, handlerVars, crashed, storeVars, polls,
                 cycleVars>>

(***************************************************************************)
(* main: for evt := range server.Events.                                   *)
(***************************************************************************)
\* the next event is received from the channel
Receive(T) ==
  /\ Ready
  /\ pc = "range"
  /\ Events # <<>>
  /\ Head(Events).Record.T = T
  /\ Events' = Tail(Events)
  /\ cycle' = Append(cycle, Head(Events))

rangeUnchanged ==
  UNCHANGED <<cancelled, closed, listenerVars, handlerVars, crashed, storeVars,
              polls, pollFailed, failedBefore>>

\* case server.PlatformInitStartEvent
RangeInitStart ==
  /\ Receive("PlatformInitStartEvent")
  /\ buffer' = Append(buffer, FormatInitStart(Head(Events).Record))
  /\ rangeUnchanged
  /\ UNCHANGED <<pc, logGroupName, put, flushes, calls>>

\* case server.PlatformStartEvent
RangeStart ==
  /\ Receive("PlatformStartEvent")
  /\ buffer' = Append(buffer, FormatStart(Head(Events).Record))
  /\ rangeUnchanged
  /\ UNCHANGED <<pc, logGroupName, put, flushes, calls>>

\* case server.FunctionEvent
RangeFunction ==
  /\ Receive("FunctionEvent")
  /\ LET r == FunctionEventStep(Head(Events).Record.Text, logGroupName, buffer)
     IN logGroupName' = r.group /\ buffer' = r.buf
  /\ rangeUnchanged
  /\ UNCHANGED <<pc, put, flushes, calls>>

\* an event whose type has no case (server.PlatformReportEvent)
RangeNoCase ==
  /\ Receive("PlatformReportEvent")
  /\ rangeUnchanged
  /\ UNCHANGED <<pc, logGroupName, buffer, put, flushes, calls>>

\* the buffer once the END and REPORT lines of a RuntimeDone are appended
WithEndAndReport(buf, v) == Append(Append(buf, FormatEnd(v)), FormatReport(v))

\* what time.Now() may return while one put is built, in milliseconds since
\* the flush began
Clock == {0, 1}

\* the readings of time.Now() in n rounds of a loop: the clock does not go
\* back, and it may advance between any two rounds
Readings(n) ==
  {[i \in 1..n |-> IF i < k THEN 0 ELSE 1] : k \in 1..(n + 1)}

\* put := &cloudwatchlogs.PutLogEventsInput{...} and the loop that fills
\* LogEvents from the buffer, each round reading time.Now(): now[i] is the
\* reading of round i
BuildPut(group, buf, now) ==
  [LogGroupName |-> group, LogStreamName |-> streamName,
   LogEvents |-> [i \in 1..Len(buf) |->
                    [Message |-> buf[i], Timestamp |-> now[i]]]]

\* case server.PlatformRuntimeDone, up to the first PutLogEvents call
RangeRuntimeDone ==
  /\ Receive("PlatformRuntimeDone")
  /\ buffer' = WithEndAndReport(buffer, Head(Events).Record)
  /\ \E now \in Readings(Len(buffer')) :
       put' = BuildPut(logGroupName, buffer', now)
  /\ pc' = "put"
  /\ flushes' = flushes + 1
  /\ calls' = NoCalls
  /\ rangeUnchanged
  /\ UNCHANGED logGroupName

\* the channel is closed and drained: the range loop ends
RangeClosed ==
  /\ Ready
  /\ pc = "range"
  /\ Events = <<>>
  /\ closed
  /\ pc' = "loop"
  /\ UNCHANGED <<cancelled, logGroupName, buffer, put, Events, closed,
                 listenerVars, handlerVars, crashed, storeVars, polls,
                 pollFailed, cycleVars>>

(***************************************************************************)
(* The log store (CloudWatch Logs) and the put loop.                       *)
(***************************************************************************)
NotFound == "ResourceNotFoundException"
AlreadyExists == "ResourceAlreadyExistsException"

\* the results client.PutLogEvents may return; any call may also fail for a
\* reason of its own.  The log store rejects an empty group name (names have
\* at least one character), which is neither success nor not-found.
PutResults(in) ==
  IF in.LogGroupName = "" THEN {"InvalidParameterException"}
  ELSE IF in.LogGroupName \notin groups \/ in.LogGroupName \notin streams
       THEN {NotFound, "ServiceUnavailableException"}
       ELSE {"ok", "ServiceUnavailableException"}

CreateGroupResults(g) ==
  IF g = "" THEN {"InvalidParameterException"}
  ELSE IF g \in groups THEN {AlreadyExists}
       ELSE {"ok", "AccessDeniedException"}

CreateStreamResults(g) ==
  IF g = "" THEN {"InvalidParameterException"}
  ELSE IF g \notin groups THEN {NotFound}
       ELSE IF g \in streams THEN {AlreadyExists}
            ELSE {"ok", "AccessDeniedException"}

\* AfterPut with a break that leaves the switch and not the range loop
AfterPut_NoOuterBreak(result) ==
  IF result = NotFound THEN "createGroup" ELSE "range"

\* where the put loop goes after a PutLogEvents result: create and retry on
\* ResourceNotFoundException, break (and break outerloop) on anything else
AfterPut(result) == IF result = NotFound THEN "createGroup" ELSE "loop"

putUnchanged ==
  UNCHANGED <<cancelled, logGroupName, buffer, Events, closed, listenerVars,
              handlerVars, crashed, polls, pollFailed, cycle, flushes>>

\* client.PutLogEvents(context.Background(), put)
PutLogEvents ==
  /\ Ready
  /\ pc = "put"
  /\ \E result \in PutResults(put) :
       /\ pc' = AfterPut(result)
       /\ put' = IF AfterPut(result) = "loop" THEN NoPut ELSE put
       /\ calls' = [calls EXCEPT !.put = Bump(@),
                                 !.first = IF calls.put = 0 THEN result ELSE @,
                                 !.last = result,
                                 !.fault = @ \/ result \notin {"ok", NotFound}]
       /\ failedBefore' = (failedBefore \/ result \notin {"ok", NotFound})
  /\ putUnchanged
  /\ UNCHANGED storeVars

\* CreateLogGroup with the put loop left when the group already exists
CreateLogGroup_StopsOnExists ==
  /\ Ready
  /\ pc = "createGroup"
  /\ \E result \in CreateGroupResults(logGroupName) :
       /\ groups' = IF result = "ok" THEN groups \cup {logGroupName} ELSE groups
       /\ calls' = [calls EXCEPT !.createGroup = Bump(@),
                                 !.fault = @ \/ result \notin {"ok", AlreadyExists}]
       /\ pc' = IF result = AlreadyExists THEN "loop" ELSE "createStream"
       /\ put' = IF result = AlreadyExists THEN NoPut ELSE put
  /\ putUnchanged
  /\ UNCHANGED <<streams, failedBefore>>

\* client.CreateLogGroup(...), its result dropped
CreateLogGroup ==
  /\ Ready
  /\ pc = "createGroup"
  /\ \E result \in CreateGroupResults(logGroupName) :
       /\ groups' = IF result = "ok" THEN groups \cup {logGroupName} ELSE groups
       /\ calls' = [calls EXCEPT !.createGroup = Bump(@),
                                 !.fault = @ \/ result \notin {"ok", AlreadyExists}]
  /\ pc' = "createStream"
  /\ putUnchanged
  /\ UNCHANGED <<put, streams, failedBefore>>

\* client.CreateLogStream(...), its result dropped, then continue
CreateLogStream ==
  /\ Ready
  /\ pc = "createStream"
  /\ \E result \in CreateStreamResults(logGroupName) :
       /\ streams' = IF result = "ok" THEN streams \cup {logGroupName} ELSE streams
       /\ calls' = [calls EXCEPT !.createStream = Bump(@),
                                 !.fault = @ \/ result \notin {"ok", AlreadyExists}]
  /\ pc' = "put"
  /\ putUnchanged
  /\ UNCHANGED <<put, groups, failedBefore>>

(***************************************************************************)
(* The listener: the http handler.                                         *)
(***************************************************************************)
\* Classify with platform.report among the types dropped silently
Classify_ReportDropped(type) ==
  CASE type = "platform.initStart" -> "push"
    [] type = "function" -> "push"
    [] type = "platform.start" -> "push"
    [] type = "platform.runtimeDone" -> "push"
    [] type = "platform.report" -> "drop"
    [] type = "platform.extension" -> "drop"
    [] type = "platform.initReport" -> "drop"
    [] type = "platform.initRuntimeDone" -> "drop"
    [] type = "platform.telemetrySubscription" -> "drop"
    [] OTHER -> "unknown"

\* the switch on evt.Type: push an Event, drop silently, or log and drop
Classify(type) ==
  CASE type = "platform.initStart" -> "push"
    [] type = "function" -> "push"
    [] type = "platform.start" -> "push"
    [] type = "platform.report" -> "push"
    [] type = "platform.runtimeDone" -> "push"
    [] type = "platform.extension" -> "drop"
    [] type = "platform.initReport" -> "drop"
    [] type = "platform.initRuntimeDone" -> "drop"
    [] type = "platform.telemetrySubscription" -> "drop"
    [] OTHER -> "unknown"

\* the telemetry source posts a batch of n envelopes, served by one of the
\* goroutines S; the envelopes are drawn as the handler's loop reaches them
Post(S) ==
  /\ Ready
  /\ lsn = "serving"
  /\ \E r \in S, n \in 1..(MaxPosted - posted) :
       /\ handlers[r].st # "running"
       /\ \A q \in S : q < r => handlers[q].st = "running"
       /\ handlers' = [handlers EXCEPT ![r] = [st |-> "running", left |-> n]]
       /\ posted' = posted + n
  /\ UNCHANGED <<mainVars, cancelled, Events, closed, listenerVars, slice,
                 pushed, crashed, storeVars, polls, pollFailed, cycleVars>>

handlerUnchanged ==
  UNCHANGED <<mainVars, cancelled, closed, listenerVars, crashed, storeVars,
              polls, posted, pollFailed, cycleVars>>

\* one round of "for _, evt := range slice" is over
Handled(r, evt) ==
  /\ handlers' = [handlers EXCEPT ![r].left = @ - 1]
  /\ slice' = [slice EXCEPT ![r] = Append(@, evt)]

\* CanSend for a channel that takes a value whatever it holds
CanSend_Unbounded(q) == TRUE

\* a send on a buffered channel goes through when the buffer has room (no
\* receiver is waiting while the buffer holds anything), else the sender waits
CanSend(q) == Len(q) < QueueCap

\* Events <- Event{...}: blocks while the channel is full
HandlerPush(r) ==
  /\ Ready
  /\ handlers[r].st = "running"
  /\ handlers[r].left > 0
  /\ ~closed
  /\ CanSend(Events)
  /\ \E evt \in Envelopes :
       /\ Classify(evt.Type) = "push"
       /\ Events' = Append(Events, EventOf(evt))
       /\ pushed' = [pushed EXCEPT ![r] = Append(@, EventOf(evt))]
       /\ Handled(r, evt)
  /\ handlerUnchanged

\* Events <- Event{...} on the closed channel panics; net/http recovers the
\* panic of a handler and the request ends there
HandlerPanic(r) ==
  /\ Ready
  /\ handlers[r].st = "running"
  /\ handlers[r].left > 0
  /\ closed
  /\ \E evt \in Envelopes : Classify(evt.Type) = "push"
  /\ handlers' = [handlers EXCEPT ![r] = [st |-> "panicked", left |-> 0]]
  /\ slice' = [slice EXCEPT ![r] = <<>>]
  /\ pushed' = [pushed EXCEPT ![r] = <<>>]
  /\ handlerUnchanged
  /\ UNCHANGED Events

\* the four types with an empty case
HandlerDrop(r) ==
  /\ Ready
  /\ handlers[r].st = "running"
  /\ handlers[r].left > 0
  /\ \E evt \in Envelopes :
       /\ Classify(evt.Type) = "drop"
       /\ Handled(r, evt)
  /\ handlerUnchanged
  /\ UNCHANGED <<Events, pushed>>

\* default: log "unknown event type"
HandlerUnknown(r) ==
  /\ Ready
  /\ handlers[r].st = "running"
  /\ handlers[r].left > 0
  /\ \E evt \in Envelopes :
       /\ Classify(evt.Type) = "unknown"
       /\ Handled(r, evt)
  /\ handlerUnchanged
  /\ UNCHANGED <<Events, pushed>>

\* slice = nil and the handler returns
HandlerReturn(r) ==
  /\ Alive
  /\ handlers[r].st = "running"
  /\ handlers[r].left = 0
  /\ handlers' = [handlers EXCEPT ![r] = IdleHandler]
  /\ slice' = [slice EXCEPT ![r] = <<>>]
  /\ pushed' = [pushed EXCEPT ![r] = <<>>]
  /\ handlerUnchanged
  /\ UNCHANGED Events

(***************************************************************************)
(* The listener: its goroutine and Shutdown.                               *)
(***************************************************************************)
shutdownUnchanged ==
  UNCHANGED <<mainVars, cancelled, Events, handlerVars, storeVars, polls,
              pollFailed, cycleVars>>

\* if httpServer != nil: a call that finds the server goes on to
\* httpServer.Shutdown(ctx), which closes the listening socket at once
Entered == IF httpServer # "nil" THEN "http" ELSE "returned"

\* httpServer.ListenAndServe() returns an error other than ErrServerClosed:
\* the goroutine calls Shutdown()
ListenerFails ==
  /\ Ready
  /\ lsn = "serving"
  /\ lsn' = "failed"
  /\ sd' = [sd EXCEPT !["listener"] = [pc |-> Entered, err |-> FALSE]]
  /\ shutdownUnchanged
  /\ UNCHANGED <<httpServer, closed, crashed, closes, extCalls>>

\* Shutdown() is called from outside the listener
ExternalShutdown ==
  /\ Ready
  /\ sd["external"].pc \in {"idle", "returned"}
  /\ extCalls < MaxExtCalls
  /\ extCalls' = extCalls + 1
  /\ sd' = [sd EXCEPT !["external"] = [pc |-> Entered, err |-> FALSE]]
  /\ lsn' = IF lsn = "serving" /\ httpServer # "nil" THEN "closed" ELSE lsn
  /\ shutdownUnchanged
  /\ UNCHANGED <<httpServer, closed, crashed, closes>>

\* err of httpServer.Shutdown(ctx): the call fails when a handler is still
\* running as the second of grace ends
ShutdownErr == \E r \in Slots : handlers[r].st = "running"

\* the rest of Shutdown once httpServer.Shutdown returned err: close(Events),
\* which panics on a closed channel, then httpServer = nil unless err != nil
CloseAndFinish(c, err) ==
  /\ crashed' = closed
  /\ closed' = TRUE
  /\ closes' = closes + 1
  /\ httpServer' = IF ~closed /\ ~err THEN "nil" ELSE httpServer
  /\ sd' = [sd EXCEPT ![c] = [pc |-> IF closed THEN "panicked" ELSE "returned",
                              err |-> err]]

\* httpServer.Shutdown(ctx) returns and Shutdown() runs to its end
ShutdownReturns(c) ==
  /\ Ready
  /\ sd[c].pc = "http"
  /\ CloseAndFinish(c, ShutdownErr)
  /\ shutdownUnchanged
  /\ UNCHANGED <<lsn, extCalls>>

(***************************************************************************)
(* Specifications.                                                         *)
(***************************************************************************)
\* the program as it is: the telemetry source of the one subscription posts
\* one batch at a time and only the listener goroutine calls Shutdown
Next ==
  \/ Signal
  \/ LoopTop
  \/ EventNextReturns
  \/ EventNextFails
  \/ RangeInitStart
  \/ RangeStart
  \/ RangeFunction
  \/ RangeNoCase
  \/ RangeRuntimeDone
  \/ RangeClosed
  \/ PutLogEvents
  \/ CreateLogGroup
  \/ CreateLogStream
  \/ Post({1})
  \/ \E r \in Slots : HandlerPush(r)
  \/ \E r \in Slots : HandlerPanic(r)
  \/ \E r \in Slots : HandlerDrop(r)
  \/ \E r \in Slots : HandlerUnknown(r)
  \/ \E r \in Slots : HandlerReturn(r)
  \/ ListenerFails
  \/ \E c \in Callers : ShutdownReturns(c)

Spec == Init /\ [][Next]_vars

\* the steps main takes on its own once it can: the select, the range loop
\* and the put loop (the log store answers every call)
MainStep ==
  \/ LoopTop
  \/ RangeInitStart
  \/ RangeStart
  \/ RangeFunction
  \/ RangeNoCase
  \/ RangeRuntimeDone
  \/ RangeClosed
  \/ PutLogEvents
  \/ CreateLogGroup
  \/ CreateLogStream

\* the steps of the goroutine that serves request r
HandlerStep(r) ==
  \/ HandlerPush(r)
  \/ HandlerPanic(r)
  \/ HandlerDrop(r)
  \/ HandlerUnknown(r)
  \/ HandlerReturn(r)

\* the Go scheduler runs every goroutine that can run: main, the request
\* handlers, and a Shutdown call, whose httpServer.Shutdown(ctx) returns
\* within the second its context allows.  Nothing is assumed of the signal,
\* the telemetry source, the Extensions API or the failure of the listener.
SpecFair ==
  /\ Spec
  /\ WF_vars(MainStep)
  /\ \A r \in Slots : WF_vars(HandlerStep(r))
  /\ \A c \in Callers : WF_vars(ShutdownReturns(c))

\* the package server on its own: requests served concurrently, Shutdown
\* called by the listener goroutine and from outside
NextApi ==
  \/ Post(Slots)
  \/ \E r \in Slots : HandlerPush(r)
  \/ \E r \in Slots : HandlerPanic(r)
  \/ \E r \in Slots : HandlerDrop(r)
  \/ \E r \in Slots : HandlerUnknown(r)
  \/ \E r \in Slots : HandlerReturn(r)
  \/ ListenerFails
  \/ ExternalShutdown
  \/ \E c \in Callers : ShutdownReturns(c)

SpecApi == Init /\ [][NextApi]_vars

(***************************************************************************)
(* Vocabulary of the properties.                                           *)
(***************************************************************************)
\* a flush is in progress: put is built and the put loop is running
Flushing == pc \in {"put", "createGroup", "createStream"}

\* the messages of the PutLogEventsInput, in order
Messages(in) == [i \in 1..Len(in.LogEvents) |-> in.LogEvents[i].Message]

IsFunction(evt) == evt.Record.T = "FunctionEvent"

\* a function line that matches the directive marker
HasMarker(evt) ==
  IsFunction(evt) /\ Len(FindStringSubmatch(evt.Record.Text)) > 1

Payload(evt) == FindStringSubmatch(evt.Record.Text)[2]

\* a line whose payload decodes to a log.split action with its properties; a
\* properties object without logGroupName decodes to the name ""
ValidSplit(evt) ==
  /\ HasMarker(evt)
  /\ ~UnmarshalAction(Payload(evt)).err
  /\ UnmarshalAction(Payload(evt)).Action = "log.split"
  /\ ~UnmarshalLogSplit(UnmarshalAction(Payload(evt)).Properties).err

SplitGroup(evt) ==
  UnmarshalLogSplit(UnmarshalAction(Payload(evt)).Properties).LogGroupName

\* a line that matches the marker with a payload that is no JSON
Malformed(evt) == HasMarker(evt) /\ UnmarshalAction(Payload(evt)).err

\* the events of s that satisfy ValidSplit
Splits(s) == SelectSeq(s, ValidSplit)

\* the envelopes of a batch that the claim C3 names, as events
RecognizedEvents(batch) ==
  LET kept == SelectSeq(batch, LAMBDA e : e.Type \in
                {"platform.initStart", "platform.start", "function",
                 "platform.report", "platform.runtimeDone"})
  IN [i \in 1..Len(kept) |-> EventOf(kept[i])]

\* the lines a flush is to submit for the events dequeued in one cycle: a line
\* for InitStart, Start and every function line that is no valid directive,
\* END and REPORT for the RuntimeDone
RECURSIVE ExpectedLines(_)
ExpectedLines(s) ==
  IF s = <<>> THEN <<>>
  ELSE LET v == Head(s).Record
       IN (CASE v.T = "PlatformInitStartEvent" -> <<FormatInitStart(v)>>
             [] v.T = "PlatformStartEvent" -> <<FormatStart(v)>>
             [] v.T = "FunctionEvent" ->
                  IF ValidSplit(Head(s)) THEN <<>> ELSE <<v.Text>>
             [] v.T = "PlatformRuntimeDone" -> <<FormatEnd(v), FormatReport(v)>>
             [] OTHER -> <<>>) \o ExpectedLines(Tail(s))

\* a is b with some elements left out
RECURSIVE IsSubseq(_, _)
IsSubseq(a, b) ==
  IF a = <<>> THEN TRUE
  ELSE IF b = <<>> THEN FALSE
  ELSE IF Head(a) = Head(b) THEN IsSubseq(Tail(a), Tail(b))
  ELSE IsSubseq(a, Tail(b))

\* a PutLogEvents result that ends the flush with an error
IsFailure(result) == result \notin {"", "ok", NotFound}

\* the record of an envelope decodes into the Go type of its evt.Type: an
\* object for the platform events, a string for a function line
Decodes(evt) ==
  IF evt.Type = "function" THEN evt.Record.json = "string"
  ELSE evt.Record.json = "object"

\* the envelopes of a batch that are of a recognized type and whose record
\* decodes, as events
DecodedEvents(batch) ==
  LET kept == SelectSeq(batch, LAMBDA e : Classify(e.Type) = "push" /\ Decodes(e))
  IN [i \in 1..Len(kept) |-> EventOf(kept[i])]

\* the groups named by the valid directives of s
SplitGroups(s) == {SplitGroup(Splits(s)[i]) : i \in 1..Len(Splits(s))}

C2_MalformedKeptVerbatim ==
  [][(/\ pc = "range"
      /\ Events # <<>>
      /\ Malformed(Head(Events))
      /\ Events' = Tail(Events))
     => (/\ buffer' = Append(buffer, Head(Events).Record.Text)
         /\ logGroupName' = logGroupName)]_vars

\* C3: the events a request has pushed are, in order, the events of the
\* envelopes it has handled whose type is one of the five recognized types.
C3_PushedAreRecognized ==
  \A r \in Slots :
    handlers[r].st = "running" => pushed[r] = RecognizedEvents(slice[r])

\* C3 witness: a request has handled a whole batch of three envelopes, two of
\* them of a recognized type and one not.
C3_Witness ==
  \E r \in Slots :
    /\ handlers[r].st = "running"
    /\ handlers[r].left = 0
    /\ Len(slice[r]) = 3
    /\ Len(pushed[r]) = 2

\* C4: the messages of a flush are, in dequeue order, the lines of the
\* InitStart, Start and non-directive function events of the cycle, then END
\* and REPORT; no valid directive line is among them.
C4_FlushedMessages ==
  Flushing =>
    /\ Messages(put) = ExpectedLines(cycle)
    /\ \A i \in 1..Len(cycle) :
         ValidSplit(cycle[i]) =>
           \A j \in 1..Len(put.LogEvents) :
             put.LogEvents[j].Message # cycle[i].Record.Text

\* C5: between two EventNext calls at most one flush is started; a flush is
\* started only by the step that receives a RuntimeDone, and the log store is
\* called only within a flush.
C5_OneFlushPerCycle ==
  [][/\ flushes' <= 1
     /\ flushes' > flushes =>
          /\ pc = "range"
          /\ Events # <<>>
          /\ Head(Events).Record.T = "PlatformRuntimeDone"
          /\ Events' = Tail(Events)
     /\ (calls' # calls /\ calls' # NoCalls) => (Flushing /\ flushes = 1)]_vars

\* C5 witness: the second EventNext call is issued after a cycle with one
\* flush.
C5_Witness == pc = "poll" /\ polls = 2 /\ flushes = 1 /\ calls.put > 0

\* C6: when the first put of a flush returns ResourceNotFoundException and no
\* call of the flush fails for another reason ("already exists" apart), there
\* is at most one create-group, one create-stream and one retry, the creates
\* name the group of the put, and the flush ends after exactly one of each
\* with the retry successful.
C6_CreateThenOneRetry ==
  (calls.first = NotFound /\ ~calls.fault) =>
     /\ calls.createGroup <= 1
     /\ calls.createStream <= 1
     /\ calls.put <= 2
     /\ Flushing => put.LogGroupName = logGroupName
     /\ ~Flushing =>
          /\ calls.createGroup = 1
          /\ calls.createStream = 1
          /\ calls.put = 2
          /\ calls.last = "ok"
          /\ logGroupName \in groups
          /\ logGroupName \in streams

\* C6 witness: a flush to a group that exists, without the stream, has ended:
\* create-group answered "already exists" and the retry succeeded.
C6_Witness ==
  /\ pc = "loop"
  /\ calls.first = NotFound
  /\ ~calls.fault
  /\ calls.last = "ok"
  /\ logGroupName = "/g1"

\* C7: Shutdown is idempotent: whatever the calls and their interleaving, the
\* channel is closed at most once and no call panics.
C7_ShutdownIdempotent ==
  /\ closes <= 1
  /\ ~crashed
  /\ \A c \in Callers : sd[c].pc # "panicked"

\* C8: when a put fails with an error other than ResourceNotFoundException the
\* flush is over and main is back at the top of its loop (or polling, or
\* returned from there), nothing has crashed, and the messages of any later
\* flush come from the events of its own cycle only, ending with its END and
\* REPORT lines.
C8_FailedFlushIsLeftBehind ==
  /\ IsFailure(calls.last) => (pc \in {"loop", "poll"} \cup Exits /\ ~crashed)
  /\ (failedBefore /\ Flushing) =>
       /\ IsSubseq(Messages(put), ExpectedLines(cycle))
       /\ Len(put.LogEvents) >= 2
       /\ SubSeq(Messages(put), Len(put.LogEvents) - 1, Len(put.LogEvents))
            = <<FormatEnd(cycle[Len(cycle)].Record),
                FormatReport(cycle[Len(cycle)].Record)>>

\* C8 witness: after a failed flush, a flush of the next cycle has succeeded.
C8_Witness ==
  /\ failedBefore
  /\ polls = 2
  /\ pc = "loop"
  /\ flushes = 1
  /\ calls.last = "ok"

\* C9: when EventNext has returned SHUTDOWN and main has returned, the
\* listener is shut down and the channel is closed.
C9_ShutdownStopsListener ==
  pc = "exitShutdown" => (closed /\ lsn # "serving")

\* C10: once an EventNext call has failed, main has returned, and no EventNext
\* call, no receive from the channel, no flush and no log store call follows.
C10_PollErrorIsTerminal ==
  [][/\ pollFailed' => pc' \in Exits
     /\ pollFailed =>
          /\ polls' = polls
          /\ cycle' = cycle
          /\ flushes' = flushes
          /\ calls' = calls]_vars

\* C10 witness: EventNext failed while events were waiting in the channel.
C10_Witness == pollFailed /\ pc = "exitPollError" /\ Len(Events) = 2

\* C12: the channel never holds more than its capacity; while it is open, a
\* request that gets past an envelope of a pushed type has appended its event
\* at the tail (with the channel full it does not get past it); the only other
\* change of the channel is main taking the event at its head, which it then
\* holds as the latest event dequeued.
C12_BoundedFifoNoLoss ==
  [][/\ Len(Events') <= QueueCap
     /\ \A r \in Slots :
          IF Len(slice'[r]) = Len(slice[r]) + 1
          THEN LET evt == slice'[r][Len(slice'[r])]
               IN Classify(evt.Type) = "push" =>
                    /\ Len(Events) < QueueCap
                    /\ ~closed
                    /\ Events' = Append(Events, EventOf(evt))
          ELSE TRUE
     /\ IF Events' = Events THEN TRUE
        ELSE IF Len(Events') > Len(Events)
        THEN /\ Events' = Append(Events, Events'[Len(Events')])
             /\ \E r \in Slots : Len(slice'[r]) = Len(slice[r]) + 1
        ELSE /\ Events # <<>>
             /\ Events' = Tail(Events)
             /\ cycle' = Append(cycle, Head(Events))]_vars

\* C12 witness: a request has pushed three events through the channel of
\* capacity two: the first one is dequeued, the other two wait in order.
C12_Witness ==
  \E r \in Slots :
    /\ Len(pushed[r]) = 3
    /\ Len(cycle) = 1
    /\ Len(Events) = QueueCap
    /\ pushed[r] = cycle \o Events
    /\ pushed[r][1] # pushed[r][2]
    /\ pushed[r][2] # pushed[r][3]

\* C14: the events a request has pushed are, in order, the events of the
\* envelopes it has handled that are of a recognized type and whose record
\* decodes: an envelope whose record does not decode is dropped, the others
\* are pushed.
C14_UndecodableDropped ==
  \A r \in Slots :
    handlers[r].st = "running" => pushed[r] = DecodedEvents(slice[r])

\* C15: every flush is submitted to a group with a name.
C15_FlushGroupNotEmpty == Flushing => put.LogGroupName # ""

\* C16: when EventNext returns an Invoke, main enters the range loop with an
\* empty buffer and an empty logGroupName; the messages of every flush, when
\* it is built, come from the events of its own cycle, and its group is empty
\* or named by a directive of its own cycle.
C16_CycleStartsEmpty ==
  [][/\ (pc = "poll" /\ pc' = "range") => (buffer' = <<>> /\ logGroupName' = "")
     /\ (pc = "range" /\ pc' = "put") =>
          /\ IsSubseq(Messages(put'), ExpectedLines(cycle'))
          /\ put'.LogGroupName \in {""} \cup SplitGroups(cycle')]_vars

\* C16 witness: an earlier cycle was flushed to /g2 (the group was created
\* for it); the flush of the second cycle carries its own END and REPORT only
\* and no group.
C16_Witness ==
  /\ Flushing
  /\ polls = 2
  /\ "/g2" \in groups
  /\ put.LogGroupName = ""
  /\ Len(put.LogEvents) = 2

\* C19: no request ever sends on the closed channel.
C19_NoSendOnClosed == \A r \in Slots : handlers[r].st # "panicked"

\* C20: whenever main goes back to EventNext after an invocation cycle, the
\* cycle has performed exactly one flush.
C20_PollOnlyAfterFlush ==
  [][(pc = "loop" /\ pc' = "poll" /\ polls > 0) => flushes = 1]_vars

\* C11: once the signal has fired and main has returned (the process ends
\* there), Shutdown has been entered and the channel is closed.
C11_CancelShutsDown ==
  (cancelled /\ pc \in Exits) => (closed /\ lsn # "serving")

\* C18: all messages of a flush carry the same timestamp.
C18_OneTimestampPerFlush ==
  Flushing =>
    \A i, j \in 1..Len(put.LogEvents) :
      put.LogEvents[i].Timestamp = put.LogEvents[j].Timestamp

\* C13: every flush ends: the put loop makes finitely many attempts and main
\* leaves it, whatever the log store answers.
C13_FlushEnds == Flushing ~> ~Flushing

\* C17: when the signal has fired and main waits in the range loop on the
\* empty, open channel, main stops waiting and returns, unless an event is
\* pushed or the channel is closed in the meantime.
C17_BlockedPopCancellable ==
  (cancelled /\ pc = "range" /\ Events = <<>> /\ ~closed)
    ~> (pc \in Exits \/ Events # <<>> \/ closed)

====
